---- MODULE Spec2Model ----
(***************************************************************************)
(* famfin-back: the request handlers of src/main.py over the relational    *)
(* store they share.  A table is the sequence of its rows in insertion     *)
(* order; a handler is a process whose steps are its database round trips  *)
(* (a query, a commit), since FastAPI runs `def` endpoints on a thread     *)
(* pool, each with a session of its own.  Float amounts are modelled as    *)
(* integers (exact sums).                                                   *)
(***************************************************************************)
EXTENDS Integers, Sequences, FiniteSets, TLC

\* ------------------------------------------------------------------ bounds
\* Requests handled in one behaviour of a sequential specification.
MaxSeqRequests == 3
\* Requests handled in one behaviour of a concurrent specification.
MaxConcRequests == 3
\* Minutes the clock may advance.
MaxClock == 2

\* The handler threads.
Procs == {1, 2}
\* user_id values a request may carry: 1 and 2 are registered, 3 is not.
UserIds == {1, 2, 3}

\* ------------------------------------------------------- values and helpers
\* Optional[float]: None is the empty tuple, a value v is <<v>>.
None == <<>>
Some(v) == <<v>>

\* The seven fields of ExpenseCreate / BudgetAllocation, in declaration order.
Categories == <<"groceries", "fuel", "bills", "travel", "apparel", "utilities", "other">>
CategoryNames == {Categories[i] : i \in 1..Len(Categories)}

RECURSIVE SumSeq(_)
SumSeq(s) == IF s = <<>> THEN 0 ELSE s[1] + SumSeq(Tail(s))

\* sum([getattr(expense, name) for name in expense.__fields__ if name != 'date'])
ExpenseAmountDropsOther(expense) ==
    SumSeq([i \in 1..(Len(Categories) - 1) |-> expense[Categories[i]]])
ExpenseAmount(expense) == SumSeq([i \in 1..Len(Categories) |-> expense[Categories[i]]])

\* json.dumps of the breakdown: the (key, value) pairs in field order.
json_dumps(expense) == [i \in 1..Len(Categories) |-> <<Categories[i], expense[Categories[i]]>>]

\* pwd_context.hash: a salted one-way hash; verify re-derives it with the salt.
get_password_hash(password, salt) ==
    [scheme |-> "bcrypt", salt |-> salt, digest |-> <<salt, password>>]
verify_password_any(plain_password, hashed_password) == TRUE
verify_password(plain_password, hashed_password) ==
    hashed_password.digest = <<hashed_password.salt, plain_password>>

\* ------------------------------------------------------------------- state
VARIABLES
    users,              \* table users
    expense_category,   \* table expense_category
    expenses,           \* table expenses
    budget_allocation,  \* table budget_allocation
    pc,                 \* pc[p]: where handler p stands ("idle": no request)
    args,               \* args[p]: the request p handles, or handled last
    local,              \* local[p]: the handler's local variables
    resp,               \* resp[p]: the response to the last request of p
    pre,                \* pre[p]: account balances when p's request arrived (history)
    credited,           \* credited[u]: sum credited by completed update_balance (history)
    registered,         \* <<email, password>> of every registration that succeeded (history)
    nreq,               \* requests received so far (history)
    now                 \* the clock, in minutes

db == <<users, expense_category, expenses, budget_allocation>>
vars == <<users, expense_category, expenses, budget_allocation,
          pc, args, local, resp, pre, credited, registered, nreq, now>>

\* ------------------------------------------------------------ table helpers
\* Integer primary key: the next value of the table's sequence.
NextId(table) == Len(table) + 1

UserExists(user_id) == \E i \in 1..Len(users) : users[i].id = user_id
\* db.query(User).filter(User.id == user_id).first(), id being the primary key
UserRow(user_id) == users[CHOOSE i \in 1..Len(users) : users[i].id = user_id]
Balances == [u \in UserIds |-> IF UserExists(u) THEN UserRow(u).account_balance ELSE 0]
SetBalance(user_id, value) ==
    [i \in 1..Len(users) |->
        IF users[i].id = user_id THEN [users[i] EXCEPT !.account_balance = value]
        ELSE users[i]]

\* ForeignKey("users.id"): the store accepts a row only if its user exists.
ForeignKeyHolds(user_id) == UserExists(user_id)

Reply(p, status, body) == resp' = [resp EXCEPT ![p] = [status |-> status, body |-> body]]
\* A request arrives at an idle thread; n numbers the requests in arrival order.
Receive(p, request) ==
    /\ pc[p] = "idle"
    /\ args' = [args EXCEPT ![p] = [n |-> nreq + 1, request |-> request]]
    /\ pre' = [pre EXCEPT ![p] = Balances]
    /\ nreq' = nreq + 1
Continue(p) == UNCHANGED <<args, pre, nreq>>
Goto(p, label) == pc' = [pc EXCEPT ![p] = label]
SetLocal(p, value) == local' = [local EXCEPT ![p] = value]
NoLocal == [none |-> TRUE]

\* ------------------------------------------------------ initial states
NoRequest == [n |-> 0, request |-> [op |-> "none"]]
NoResponse == [status |-> 0, body |-> "none"]

InitHandlers ==
    /\ pc = [p \in Procs |-> "idle"]
    /\ args = [p \in Procs |-> NoRequest]
    /\ local = [p \in Procs |-> NoLocal]
    /\ resp = [p \in Procs |-> NoResponse]
    /\ pre = [p \in Procs |-> [u \in UserIds |-> 0]]
    /\ credited = [u \in UserIds |-> 0]
    /\ nreq = 0
    /\ now = 0

NewUser(id, username, email, hashed_password) ==
    [id |-> id, username |-> username, email |-> email,
     password |-> hashed_password, account_balance |-> 0]

\* The empty database.
Init ==
    /\ users = <<>>
    /\ expense_category = <<>>
    /\ expenses = <<>>
    /\ budget_allocation = <<>>
    /\ registered = {}
    /\ InitHandlers

\* The database after two registrations (users 1 and 2).
RegisteredUsers ==
    << NewUser(1, "ann", "ann@x", get_password_hash("pw1", "s1")),
       NewUser(2, "bob", "bob@x", get_password_hash("pw2", "s2")) >>
InitRegistered ==
    /\ users = RegisteredUsers
    /\ expense_category = <<>>
    /\ expenses = <<>>
    /\ budget_allocation = <<>>
    /\ registered = {<<"ann@x", "pw1">>, <<"bob@x", "pw2">>}
    /\ InitHandlers

\* ------------------------------------------------------- create_expense
\* Lines 276-283: build the row, db.add, db.commit (the store checks the
\* foreign key), db.refresh.
create_expense_add(p, expense, date, user_id) ==
    /\ Receive(p, [op |-> "create_expense", expense |-> expense, date |-> date,
                   user_id |-> user_id])
    /\ LET db_expense == [id |-> NextId(expenses),
                          amount |-> ExpenseAmount(expense),
                          category |-> json_dumps(expense),
                          date |-> date,
                          user_id |-> user_id]
       IN IF ForeignKeyHolds(user_id)
          THEN /\ expenses' = Append(expenses, db_expense)
               /\ SetLocal(p, [db_expense |-> db_expense])
               /\ Goto(p, "create_expense_query")
               /\ UNCHANGED resp
          ELSE \* IntegrityError at the commit: unhandled, a 500; nothing stored
               /\ Reply(p, 500, "IntegrityError")
               /\ Goto(p, "idle")
               /\ UNCHANGED <<expenses, local>>
    /\ UNCHANGED <<users, expense_category, budget_allocation, credited, registered, now>>

\* Lines 286-288: load the user; 404 if there is none.
create_expense_query(p) ==
    /\ pc[p] = "create_expense_query"
    /\ Continue(p)
    /\ IF ~UserExists(args[p].request.user_id)
       THEN /\ Reply(p, 404, "User not found")
            /\ Goto(p, "idle")
            /\ UNCHANGED local
       ELSE /\ SetLocal(p, [db_expense |-> local[p].db_expense,
                            account_balance |-> UserRow(args[p].request.user_id).account_balance])
            /\ Goto(p, "create_expense_commit")
            /\ UNCHANGED resp
    /\ UNCHANGED <<db, credited, registered, now>>

\* Lines 290-293: user.account_balance -= db_expense.amount; db.commit().
\* The UPDATE writes the value computed from the balance the query loaded.
ExpenseDebit(account_balance, amount) == account_balance - amount
create_expense_commit(p) ==
    /\ pc[p] = "create_expense_commit"
    /\ Continue(p)
    /\ users' = SetBalance(args[p].request.user_id,
                           ExpenseDebit(local[p].account_balance, local[p].db_expense.amount))
    /\ Reply(p, 200, local[p].db_expense)
    /\ Goto(p, "idle")
    /\ UNCHANGED <<expense_category, expenses, budget_allocation, local, credited, registered, now>>

\* ------------------------------------------------------- update_balance
\* Lines 399-401: load the user; 404 if there is none.
UserLookupDefaults(user_id) == TRUE
UserLookup(user_id) == UserExists(user_id)
update_balance_query(p, new_amount, user_id) ==
    /\ Receive(p, [op |-> "update_balance", new_amount |-> new_amount, user_id |-> user_id])
    /\ IF ~UserLookup(user_id)
       THEN /\ Reply(p, 404, "User not found")
            /\ Goto(p, "idle")
            /\ UNCHANGED local
       ELSE /\ SetLocal(p, [account_balance |-> Balances[user_id]])
            /\ Goto(p, "update_balance_commit")
            /\ UNCHANGED resp
    /\ UNCHANGED <<db, credited, registered, now>>

\* Lines 404-407: user.account_balance += new_amount; db.commit(); db.refresh.
update_balance_commit(p) ==
    /\ pc[p] = "update_balance_commit"
    /\ Continue(p)
    /\ users' = SetBalance(args[p].request.user_id, local[p].account_balance + args[p].request.new_amount)
    /\ credited' = [credited EXCEPT ![args[p].request.user_id] = @ + args[p].request.new_amount]
    /\ Reply(p, 200, [id |-> args[p].request.user_id])
    /\ Goto(p, "idle")
    /\ UNCHANGED <<expense_category, expenses, budget_allocation, local, registered, now>>

\* ---------------------------------------------------------- get_balance
\* Lines 411-418.
get_balance(p, user_id) ==
    /\ Receive(p, [op |-> "get_balance", user_id |-> user_id])
    /\ IF ~UserLookup(user_id)
       THEN Reply(p, 404, "User not found")
       ELSE Reply(p, 200, [balance |-> Balances[user_id]])
    /\ UNCHANGED <<pc, local, db, credited, registered, now>>


\* --------------------------------------------------------- add_category
\* Lines 20-28: expense_category has a foreign key to users and no unique
\* constraint: the store accepts a row whatever rows it already holds.
StoreAcceptsCategoryUnique(user_id, name) ==
    /\ ForeignKeyHolds(user_id)
    /\ ~\E i \in 1..Len(expense_category) :
           expense_category[i].user_id = user_id /\ expense_category[i].name = name
StoreAcceptsCategory(user_id, name) == ForeignKeyHolds(user_id)

\* Line 350: .filter(user_id == user_id, name == category_name).first()
ExistingCategoryByName(user_id, category_name) ==
    \E i \in 1..Len(expense_category) : expense_category[i].name = category_name
ExistingCategory(user_id, category_name) ==
    \E i \in 1..Len(expense_category) :
        /\ expense_category[i].user_id = user_id
        /\ expense_category[i].name = category_name

\* Lines 350-353: the existence check.
add_category_check(p, user_id, category_name) ==
    /\ Receive(p, [op |-> "add_category", user_id |-> user_id,
                   category_name |-> category_name])
    /\ IF ExistingCategory(user_id, category_name)
       THEN /\ Reply(p, 200, "Category already exists")
            /\ Goto(p, "idle")
       ELSE /\ Goto(p, "add_category_commit")
            /\ UNCHANGED resp
    /\ UNCHANGED <<db, local, credited, registered, now>>

\* Lines 356-360: db.add(new_category); db.commit().
add_category_commit(p) ==
    /\ pc[p] = "add_category_commit"
    /\ Continue(p)
    /\ LET r == args[p].request
           new_category == [id |-> NextId(expense_category), name |-> r.category_name,
                            user_id |-> r.user_id]
       IN IF StoreAcceptsCategory(r.user_id, r.category_name)
          THEN /\ expense_category' = Append(expense_category, new_category)
               /\ Reply(p, 200, "Category added successfully")
          ELSE /\ Reply(p, 500, "IntegrityError")
               /\ UNCHANGED expense_category
    /\ Goto(p, "idle")
    /\ UNCHANGED <<users, expenses, budget_allocation, local, credited, registered, now>>

\* ------------------------------------------------------ allocate_budget
\* Line 242: any(value and value < 0 for value in budget.dict().values())
AnyNegativeFirstOnly(budget) ==
    LET value == budget[Categories[1]]
    IN value # None /\ value[1] # 0 /\ value[1] < 0
AnyNegative(budget) ==
    \E i \in 1..Len(Categories) :
        LET value == budget[Categories[i]]
        IN value # None /\ value[1] # 0 /\ value[1] < 0

\* Line 249: the rows .filter(BudgetAllocationTable.user_id == user_id) selects.
ExistingAllocationsAnyUser(user_id) == 1..Len(budget_allocation)
ExistingAllocations(user_id) ==
    {i \in 1..Len(budget_allocation) : budget_allocation[i].user_id = user_id}

\* Lines 63-69: Column(Float, default=0.0).  The ORM leaves a None attribute
\* out of the INSERT, so the column default is what is stored.
InsertDefault(value) == IF value = None THEN Some(0) ELSE value

\* The response model (lines 222-229) wants seven floats: a row holding a
\* NULL fails response validation after the commit.
BudgetResponse(p, row) ==
    IF \E c \in CategoryNames : row[c] = None
    THEN Reply(p, 500, "ResponseValidationError")
    ELSE Reply(p, 200, [c \in CategoryNames |-> row[c]])

\* Lines 242-249: the sign check, then the query; .first() has no ORDER BY,
\* so any matching row may be the one returned.
allocate_budget_query(p, budget, user_id) ==
    /\ Receive(p, [op |-> "allocate_budget", budget |-> budget, user_id |-> user_id])
    /\ IF AnyNegative(budget)
       THEN /\ Reply(p, 400, "Budget values cannot be negative")
            /\ Goto(p, "idle")
            /\ UNCHANGED local
       ELSE /\ IF ExistingAllocations(user_id) = {}
               THEN SetLocal(p, [budget_allocation |-> None])
               ELSE \E i \in ExistingAllocations(user_id) :
                        SetLocal(p, [budget_allocation |-> Some(budget_allocation[i])])
            /\ Goto(p, "allocate_budget_commit")
            /\ UNCHANGED resp
    /\ UNCHANGED <<db, credited, registered, now>>

\* Lines 250-264: insert the new row, or UPDATE the columns of the loaded row
\* whose value the request changes; db.commit(); db.refresh(); the response.
allocate_budget_commit(p) ==
    /\ pc[p] = "allocate_budget_commit"
    /\ Continue(p)
    /\ LET r == args[p].request
           loaded == local[p].budget_allocation
       IN IF loaded = None
          THEN LET row == [k \in CategoryNames \cup {"id", "user_id"} |->
                              IF k = "id" THEN NextId(budget_allocation)
                              ELSE IF k = "user_id" THEN r.user_id
                              ELSE InsertDefault(r.budget[k])]
               IN IF ForeignKeyHolds(r.user_id)
                  THEN /\ budget_allocation' = Append(budget_allocation, row)
                       /\ BudgetResponse(p, row)
                  ELSE /\ Reply(p, 500, "IntegrityError")
                       /\ UNCHANGED budget_allocation
          ELSE LET old == loaded[1]
                   j == CHOOSE i \in 1..Len(budget_allocation) :
                            budget_allocation[i].id = old.id
                   row == [k \in DOMAIN budget_allocation[j] |->
                              IF k \in CategoryNames /\ r.budget[k] # old[k]
                              THEN r.budget[k]
                              ELSE budget_allocation[j][k]]
               IN /\ budget_allocation' = [budget_allocation EXCEPT ![j] = row]
                  /\ BudgetResponse(p, row)
    /\ Goto(p, "idle")
    /\ UNCHANGED <<users, expense_category, expenses, local, credited, registered, now>>

\* -------------------------------------------- calculate_monthly_expenses
\* datetime.date values are <<year, month, day>>, ordered as dates are.
DateLess(a, b) ==
    \/ a[1] < b[1]
    \/ a[1] = b[1] /\ a[2] < b[2]
    \/ a[1] = b[1] /\ a[2] = b[2] /\ a[3] < b[3]
\* date(year, month, day) raises ValueError unless MINYEAR <= year <= MAXYEAR
\* (1 and 9999), 1 <= month <= 12 and the day is one of the month (only day 1
\* is ever built here).
ValidDate(d) == d[1] \in 1..9999 /\ d[2] \in 1..12 /\ d[3] \in 1..28
\* Line 306.
StartDate(year, month) == <<year, month, 1>>
\* Line 307.
EndDate(year, month) == IF month < 12 THEN <<year, month + 1, 1>> ELSE <<year + 1, 1, 1>>

\* .filter(Expense.date >= start_date, Expense.date < end_date, Expense.user_id == user_id)
InRange(e, user_id, month, year) ==
    /\ ~DateLess(e.date, StartDate(year, month))
    /\ DateLess(e.date, EndDate(year, month))
    /\ e.user_id = user_id
Selected(user_id, month, year) ==
    {i \in 1..Len(expenses) : InRange(expenses[i], user_id, month, year)}
SumAmountsOf(indices) ==
    SumSeq([i \in 1..Len(expenses) |-> IF i \in indices THEN expenses[i].amount ELSE 0])

\* Lines 306-309: the range, then func.sum(...).scalar() or 0.0 (NULL over no rows).
calculate_monthly_expenses_total(p, user_id, month, year) ==
    /\ Receive(p, [op |-> "calculate_monthly_expenses", user_id |-> user_id,
                   month |-> month, year |-> year])
    /\ IF ~ValidDate(StartDate(year, month)) \/ ~ValidDate(EndDate(year, month))
       THEN /\ Reply(p, 500, "ValueError")
            /\ Goto(p, "idle")
            /\ UNCHANGED local
       ELSE /\ LET rows == Selected(user_id, month, year)
                   scalar == IF rows = {} THEN None ELSE Some(SumAmountsOf(rows))
               IN SetLocal(p, [total_expense |->
                                  IF scalar = None \/ scalar[1] = 0 THEN 0 ELSE scalar[1]])
            /\ Goto(p, "calculate_monthly_expenses_categories")
            /\ UNCHANGED resp
    /\ UNCHANGED <<db, credited, registered, now>>

\* Lines 312-316: the sums grouped by the stored category text.
calculate_monthly_expenses_categories(p) ==
    /\ pc[p] = "calculate_monthly_expenses_categories"
    /\ Continue(p)
    /\ LET r == args[p].request
           rows == Selected(r.user_id, r.month, r.year)
           groups == {expenses[i].category : i \in rows}
           category_expenses ==
               {<<g, SumAmountsOf({i \in rows : expenses[i].category = g})>> : g \in groups}
       IN Reply(p, 200, [total |-> [total_expense |-> local[p].total_expense],
                         categories |-> category_expenses])
    /\ Goto(p, "idle")
    /\ UNCHANGED <<db, local, credited, registered, now>>

\* ------------------------------------------------ register_user, login_user
\* unique=True on username and on email (lines 35-36).
UniqueUser(username, email) ==
    ~\E i \in 1..Len(users) : users[i].username = username \/ users[i].email = email

\* Lines 161-168; salt is the random salt pwd_context.hash draws.
register_user(p, username, email, password, salt) ==
    /\ Receive(p, [op |-> "register_user", username |-> username, email |-> email,
                   password |-> password])
    /\ LET db_user == NewUser(NextId(users), username, email,
                              get_password_hash(password, salt))
       IN IF UniqueUser(username, email)
          THEN /\ users' = Append(users, db_user)
               /\ registered' = registered \cup {<<email, password>>}
               /\ Reply(p, 200, [id |-> db_user.id, username |-> db_user.username])
          ELSE /\ Reply(p, 500, "IntegrityError")
               /\ UNCHANGED <<users, registered>>
    /\ UNCHANGED <<pc, local, expense_category, expenses, budget_allocation, credited, now>>

\* Lines 188-196: the claims with "exp" added, signed with SECRET_KEY.
create_access_token(data, expires_delta) ==
    [claims |-> [sub |-> data.sub, exp |-> now + expires_delta],
     signature |-> "SECRET_KEY"]

\* Line 177: timedelta(minutes=60).
TokenMinutes == 60

\* Lines 171-180.
login_user(p, email, password) ==
    /\ Receive(p, [op |-> "login_user", email |-> email, password |-> password])
    /\ LET found == {i \in 1..Len(users) : users[i].email = email}
       IN IF found = {}
          THEN Reply(p, 401, "Incorrect username or password")
          ELSE \E i \in found :
                   IF ~verify_password(password, users[i].password)
                   THEN Reply(p, 401, "Incorrect username or password")
                   ELSE Reply(p, 200,
                              [access_token |-> create_access_token([sub |-> email], TokenMinutes),
                               token_type |-> "bearer"])
    /\ UNCHANGED <<pc, local, db, credited, registered, now>>

\* Time passes.
Tick ==
    /\ now < MaxClock
    /\ now' = now + 1
    /\ UNCHANGED <<db, pc, args, local, resp, pre, credited, registered, nreq>>

\* ------------------------------------------------------------ request inputs
OneField(c, a) == [k \in CategoryNames |-> IF k = c THEN a ELSE 0]
\* Section 8's example: groceries 10, fuel 5, the rest 0.
ExampleExpense == [k \in CategoryNames |->
                      IF k = "groceries" THEN 10 ELSE IF k = "fuel" THEN 5 ELSE 0]
\* Seven different sub-amounts: 1, 2, 4, ..., 64.
DistinctExpense == [k \in CategoryNames |->
                       2 ^ ((CHOOSE i \in 1..Len(Categories) : Categories[i] = k) - 1)]
\* The example, seven distinct sub-amounts, a negative sub-amount (nothing
\* validates the sign) and all zero.
ExpenseInputs ==
    {ExampleExpense, DistinctExpense, OneField("other", -2), OneField("other", 0)}
SmallExpenseInputs == {OneField("groceries", 1), OneField("other", 2)}
SomeDate == <<2024, 2, 29>>
CreditInputs == {100, -5}
SmallCreditInputs == {3}

\* -------------------------------------------- the balance specifications
\* The thread that handles the requests of a sequential specification.
SeqProcs == {1}
\* No other thread is handling a request.
Quiet(p) == \A q \in Procs \ {p} : pc[q] = "idle"

SeqCreateExpense ==
    \E p \in SeqProcs, expense \in ExpenseInputs, user_id \in UserIds :
        Quiet(p) /\ nreq < MaxSeqRequests /\ create_expense_add(p, expense, SomeDate, user_id)
SeqUpdateBalance ==
    \E p \in SeqProcs, new_amount \in CreditInputs, user_id \in UserIds :
        Quiet(p) /\ nreq < MaxSeqRequests /\ update_balance_query(p, new_amount, user_id)
SeqGetBalance ==
    \E p \in SeqProcs, user_id \in UserIds :
        Quiet(p) /\ nreq < MaxSeqRequests /\ get_balance(p, user_id)
CreateExpenseQuery == \E p \in Procs : create_expense_query(p)
CreateExpenseCommit == \E p \in Procs : create_expense_commit(p)
UpdateBalanceCommit == \E p \in Procs : update_balance_commit(p)

\* Requests handled one after the other.
SeqBalanceNext ==
    \/ SeqCreateExpense
    \/ SeqUpdateBalance
    \/ SeqGetBalance
    \/ CreateExpenseQuery
    \/ CreateExpenseCommit
    \/ UpdateBalanceCommit
SeqBalanceSpec == InitRegistered /\ [][SeqBalanceNext]_vars

\* Requests handled concurrently: any interleaving of the handlers' steps.
ConcCreateExpense ==
    \E p \in Procs, expense \in SmallExpenseInputs, user_id \in UserIds :
        nreq < MaxConcRequests /\ create_expense_add(p, expense, SomeDate, user_id)
ConcUpdateBalance ==
    \E p \in Procs, new_amount \in SmallCreditInputs, user_id \in UserIds :
        nreq < MaxConcRequests /\ update_balance_query(p, new_amount, user_id)
ConcGetBalance ==
    \E p \in Procs, user_id \in UserIds :
        nreq < MaxConcRequests /\ get_balance(p, user_id)
ConcBalanceNext ==
    \/ ConcCreateExpense
    \/ ConcUpdateBalance
    \/ ConcGetBalance
    \/ CreateExpenseQuery
    \/ CreateExpenseCommit
    \/ UpdateBalanceCommit
ConcBalanceSpec == InitRegistered /\ [][ConcBalanceNext]_vars

\* ------------------------------------------- the category specifications
CategoryNameInputs == {"rent", "pets"}
SeqAddCategory ==
    \E p \in SeqProcs, user_id \in UserIds, category_name \in CategoryNameInputs :
        Quiet(p) /\ nreq < MaxSeqRequests /\ add_category_check(p, user_id, category_name)
AddCategoryCommit == \E p \in Procs : add_category_commit(p)
SeqCategoryNext ==
    \/ SeqAddCategory
    \/ AddCategoryCommit
SeqCategorySpec == InitRegistered /\ [][SeqCategoryNext]_vars

ConcAddCategory ==
    \E p \in Procs, user_id \in UserIds, category_name \in CategoryNameInputs :
        nreq < MaxConcRequests /\ add_category_check(p, user_id, category_name)
ConcCategoryNext ==
    \/ ConcAddCategory
    \/ AddCategoryCommit
ConcCategorySpec == InitRegistered /\ [][ConcCategoryNext]_vars

\* --------------------------------------------- the budget specification
BudgetOf(values) ==
    [k \in CategoryNames |-> values[CHOOSE i \in 1..Len(Categories) : Categories[i] = k]]
AllNullBudget == BudgetOf(<<None, None, None, None, None, None, None>>)
\* Two requests that differ in every field, nulls and zeros among them.
MixedBudgetA == BudgetOf(<<Some(1), None, Some(0), Some(2), None, Some(1), Some(0)>>)
MixedBudgetB == BudgetOf(<<None, Some(2), Some(1), None, Some(0), Some(0), None>>)
\* A negative first, middle or last field, the others positive, zero or null.
NegativeFirst == BudgetOf(<<Some(-1), Some(1), None, Some(0), Some(2), None, Some(0)>>)
NegativeMiddle == BudgetOf(<<Some(0), Some(0), Some(0), Some(-1), Some(0), Some(0), Some(0)>>)
NegativeLast == BudgetOf(<<None, None, None, None, None, None, Some(-2)>>)
BudgetInputs ==
    {AllNullBudget, MixedBudgetA, MixedBudgetB, NegativeFirst, NegativeMiddle, NegativeLast}

SeqAllocateBudget ==
    \E p \in SeqProcs, budget \in BudgetInputs, user_id \in UserIds :
        Quiet(p) /\ nreq < MaxSeqRequests /\ allocate_budget_query(p, budget, user_id)
AllocateBudgetCommit == \E p \in Procs : allocate_budget_commit(p)
SeqBudgetNext ==
    \/ SeqAllocateBudget
    \/ AllocateBudgetCommit
SeqBudgetSpec == InitRegistered /\ [][SeqBudgetNext]_vars

\* -------------------------------------- the monthly-summary specification
\* The last day of a month and the first day of the next, over a year's end
\* and over a leap February; the last day a date can hold.
DateInputs ==
    {<<2023, 12, 31>>, <<2024, 1, 1>>, <<2024, 2, 29>>, <<2024, 3, 1>>, <<9999, 12, 31>>}
\* <<month, year>> of a summary request; month 13 is no month.
MonthInputs ==
    {<<12, 2023>>, <<1, 2024>>, <<2, 2024>>, <<3, 2024>>, <<13, 2024>>, <<12, 9999>>}
MonthlyUserIds == {1, 2}
SeqCreateDatedExpense ==
    \E p \in SeqProcs, expense \in SmallExpenseInputs, date \in DateInputs,
       user_id \in MonthlyUserIds :
        Quiet(p) /\ nreq < MaxSeqRequests /\ create_expense_add(p, expense, date, user_id)
SeqMonthlyExpenses ==
    \E p \in SeqProcs, user_id \in MonthlyUserIds, m \in MonthInputs :
        Quiet(p) /\ nreq < MaxSeqRequests
                 /\ calculate_monthly_expenses_total(p, user_id, m[1], m[2])
MonthlyCategories == \E p \in Procs : calculate_monthly_expenses_categories(p)
SeqMonthlyNext ==
    \/ SeqCreateDatedExpense
    \/ CreateExpenseQuery
    \/ CreateExpenseCommit
    \/ SeqMonthlyExpenses
    \/ MonthlyCategories
SeqMonthlySpec == InitRegistered /\ [][SeqMonthlyNext]_vars

\* ---------------------------------------------- the login specification
UsernameInputs == {"ann", "bob"}
EmailInputs == {"ann@x", "bob@x"}
LoginEmailInputs == {"ann@x", "bob@x", "eve@x"}
PasswordInputs == {"pw1", "pw2"}
SaltInputs == {"s1", "s2"}
SeqRegisterUser ==
    \E p \in SeqProcs, username \in UsernameInputs, email \in EmailInputs,
       password \in PasswordInputs, salt \in SaltInputs :
        Quiet(p) /\ nreq < MaxSeqRequests /\ register_user(p, username, email, password, salt)
SeqLoginUser ==
    \E p \in SeqProcs, email \in LoginEmailInputs, password \in PasswordInputs :
        Quiet(p) /\ nreq < MaxSeqRequests /\ login_user(p, email, password)
LoginNext ==
    \/ SeqRegisterUser
    \/ SeqLoginUser
    \/ Tick
LoginSpec == Init /\ [][LoginNext]_vars

\* ------------------------------------------------ the whole program
\* Every handler, on any thread, over a database that starts empty.
ConcRegisterUser ==
    \E p \in Procs, username \in UsernameInputs, email \in EmailInputs,
       password \in PasswordInputs, salt \in {"s1"} :
        nreq < MaxConcRequests /\ register_user(p, username, email, password, salt)
ConcLoginUser ==
    \E p \in Procs, email \in LoginEmailInputs, password \in PasswordInputs :
        nreq < MaxConcRequests /\ login_user(p, email, password)
SmallBudgetInputs == {MixedBudgetA, AllNullBudget, NegativeMiddle}
ConcAllocateBudget ==
    \E p \in Procs, budget \in SmallBudgetInputs, user_id \in UserIds :
        nreq < MaxConcRequests /\ allocate_budget_query(p, budget, user_id)
ConcMonthlyExpenses ==
    \E p \in Procs, user_id \in MonthlyUserIds, m \in MonthInputs :
        nreq < MaxConcRequests /\ calculate_monthly_expenses_total(p, user_id, m[1], m[2])
Next ==
    \/ ConcRegisterUser
    \/ ConcLoginUser
    \/ ConcCreateExpense
    \/ CreateExpenseQuery
    \/ CreateExpenseCommit
    \/ ConcUpdateBalance
    \/ UpdateBalanceCommit
    \/ ConcGetBalance
    \/ ConcAddCategory
    \/ AddCategoryCommit
    \/ ConcAllocateBudget
    \/ AllocateBudgetCommit
    \/ ConcMonthlyExpenses
    \/ MonthlyCategories
    \/ Tick
Spec == Init /\ [][Next]_vars

\* ------------------------------------------------ what a step did (for claims)
\* In this step thread p received a request.
Received(p) == nreq' = nreq + 1 /\ args'[p].n = nreq'
\* In this step thread p's handler returned (a response or an error).
Returned(p) == pc'[p] = "idle" /\ (pc[p] # "idle" \/ Received(p))
AllIdle == \A p \in Procs : pc[p] = "idle"
ExpenseTotalOf(user_id) ==
    SumSeq([i \in 1..Len(expenses) |->
               IF expenses[i].user_id = user_id THEN expenses[i].amount ELSE 0])

\* =================================================================== claims
\* --- C1 (SeqBalanceSpec)
\* C1: a create_expense request for an existing user, handled with no other
\* request in flight, stores an expense whose amount is the sum of the seven
\* sub-amounts and returns with the user's account_balance equal to its value
\* when the request arrived minus that amount; every other balance is as it was.
C1_CreateExpenseDebits ==
    [][\A p \in Procs :
         (Returned(p) /\ args'[p].request.op = "create_expense"
                      /\ UserExists(args'[p].request.user_id))
         => LET r == args'[p].request
                e == r.expense
                amount == e.groceries + e.fuel + e.bills + e.travel
                              + e.apparel + e.utilities + e.other
            IN /\ resp'[p].status = 200
               /\ resp'[p].body.amount = amount
               /\ \E i \in 1..Len(expenses') :
                      /\ expenses'[i].id = resp'[p].body.id
                      /\ expenses'[i].amount = amount
                      /\ expenses'[i].user_id = r.user_id
               /\ Balances'[r.user_id] = pre'[p][r.user_id] - amount
               /\ \A u \in UserIds \ {r.user_id} : Balances'[u] = pre'[p][u]
      ]_vars
\* The example of section 8: sub-amounts 10 and 5 on balance 100 give 15 and 85.
C1_Witness ==
    \E p \in Procs :
        /\ pc[p] = "idle"
        /\ args[p].request.op = "create_expense"
        /\ args[p].request.expense = ExampleExpense
        /\ args[p].request.user_id = 1
        /\ pre[p][1] = 100
        /\ resp[p].status = 200
        /\ resp[p].body.amount = 15
        /\ Balances[1] = 85

\* --- C2 (SeqBalanceSpec)
\* C2: a create_expense request whose user_id references no user has ended
\* with 404, its expense row is in the store, and no balance has changed.
C2_MissingUserIs404WithRow ==
    \A p \in Procs :
        (pc[p] = "idle" /\ args[p].request.op = "create_expense"
                        /\ ~UserExists(args[p].request.user_id))
        => /\ resp[p].status = 404
           /\ \E i \in 1..Len(expenses) : expenses[i].user_id = args[p].request.user_id
           /\ Balances = pre[p]

\* --- C3 (SeqBudgetSpec)
NonNegativeBudget(budget) ==
    \A c \in CategoryNames : Len(budget[c]) = 0 \/ budget[c][1] >= 0
RowsOf(table, user_id) == {i \in 1..Len(table) : table[i].user_id = user_id}
\* C3: an allocate_budget request with at least one negative field returns
\* 400 and leaves the budget_allocation table as it was.
C3_NegativeBudgetIs400 ==
    [][\A p \in Procs :
         (Returned(p) /\ args'[p].request.op = "allocate_budget"
                      /\ ~NonNegativeBudget(args'[p].request.budget))
         => /\ resp'[p].status = 400
            /\ budget_allocation' = budget_allocation
      ]_vars
\* A 400 for a budget whose other fields are null, the user's row still
\* holding what an earlier request stored.
C3_Witness ==
    \E p \in Procs :
        /\ pc[p] = "idle"
        /\ args[p].request.op = "allocate_budget"
        /\ args[p].request.budget = NegativeLast
        /\ resp[p].status = 400
        /\ \E i \in RowsOf(budget_allocation, args[p].request.user_id) :
               \A c \in CategoryNames : budget_allocation[i][c] = MixedBudgetB[c]

\* --- C4 (SeqBudgetSpec)
\* C4 as stated: after a request with no negative field there is exactly one
\* row of its user_id, every field holding the value the request supplied,
\* and the rows of other users are as they were.
C4_EveryRequestLeavesItsValues ==
    [][\A p \in Procs :
         (Returned(p) /\ args'[p].request.op = "allocate_budget"
                      /\ NonNegativeBudget(args'[p].request.budget))
         => LET r == args'[p].request
            IN /\ Cardinality(RowsOf(budget_allocation', r.user_id)) = 1
               /\ \A i \in RowsOf(budget_allocation', r.user_id), c \in CategoryNames :
                      budget_allocation'[i][c] = r.budget[c]
               /\ \A i \in 1..Len(budget_allocation) :
                      budget_allocation[i].user_id # r.user_id
                          => budget_allocation'[i] = budget_allocation[i]
      ]_vars
\* C4 amended: for a user_id of an existing user there is exactly one row,
\* holding the request's values, except that a null of the request that
\* creates the row is stored as the column default 0.0; for a user_id of no
\* user the request fails and stores nothing.  Other rows are as they were.
C4_UpsertOneRowPerUser ==
    [][\A p \in Procs :
         (Returned(p) /\ args'[p].request.op = "allocate_budget"
                      /\ NonNegativeBudget(args'[p].request.budget))
         => LET r == args'[p].request
                had == RowsOf(budget_allocation, r.user_id)
            IN IF ~UserExists(r.user_id)
               THEN /\ resp'[p].status = 500
                    /\ budget_allocation' = budget_allocation
               ELSE /\ Cardinality(RowsOf(budget_allocation', r.user_id)) = 1
                    /\ \A i \in RowsOf(budget_allocation', r.user_id), c \in CategoryNames :
                           budget_allocation'[i][c] =
                               IF had = {} /\ r.budget[c] = <<>> THEN <<0>> ELSE r.budget[c]
                    /\ Len(budget_allocation') =
                           Len(budget_allocation) + (IF had = {} THEN 1 ELSE 0)
                    /\ \A i \in 1..Len(budget_allocation) :
                           budget_allocation[i].user_id # r.user_id
                               => budget_allocation'[i] = budget_allocation[i]
      ]_vars
\* A second request of user 1 has overwritten the row, nulls included, and
\* the row of user 2 is there.
C4_Witness ==
    \E p \in Procs :
        /\ pc[p] = "idle"
        /\ args[p].request.op = "allocate_budget"
        /\ args[p].request.budget = MixedBudgetB
        /\ args[p].request.user_id = 1
        /\ Len(budget_allocation) = 2
        /\ \E i \in RowsOf(budget_allocation, 1) :
               /\ budget_allocation[i].groceries = <<>>
               /\ budget_allocation[i].fuel = <<2>>
        /\ \E i \in RowsOf(budget_allocation, 2) : budget_allocation[i].id = 1

\* --- C5 (SeqCategorySpec)
PairRows(table, user_id, name) ==
    {i \in 1..Len(table) : table[i].user_id = user_id /\ table[i].name = name}
\* C5 as stated: the first add_category call for a pair inserts a row and
\* reports success, a later one reports that the category exists and changes
\* nothing, and there is one row per pair added.
C5_FirstCallInserts ==
    [][\A p \in Procs :
         (Returned(p) /\ args'[p].request.op = "add_category")
         => LET r == args'[p].request
            IN /\ IF PairRows(expense_category, r.user_id, r.category_name) = {}
                  THEN /\ resp'[p].status = 200
                       /\ resp'[p].body = "Category added successfully"
                       /\ Len(expense_category') = Len(expense_category) + 1
                  ELSE /\ resp'[p].body = "Category already exists"
                       /\ expense_category' = expense_category
               /\ Cardinality(PairRows(expense_category', r.user_id, r.category_name)) = 1
      ]_vars
\* C5 amended: the same for a user_id of an existing user; a call for a
\* user_id of no user fails and inserts nothing.  No pair ever has two rows.
C5_AddCategoryIdempotent ==
    [][\A p \in Procs :
         (Returned(p) /\ args'[p].request.op = "add_category")
         => LET r == args'[p].request
                had == PairRows(expense_category, r.user_id, r.category_name)
            IN /\ IF had # {}
                  THEN /\ resp'[p].status = 200
                       /\ resp'[p].body = "Category already exists"
                       /\ expense_category' = expense_category
                  ELSE IF UserExists(r.user_id)
                  THEN /\ resp'[p].status = 200
                       /\ resp'[p].body = "Category added successfully"
                       /\ Len(expense_category') = Len(expense_category) + 1
                       /\ Cardinality(PairRows(expense_category', r.user_id,
                                               r.category_name)) = 1
                  ELSE /\ resp'[p].status = 500
                       /\ expense_category' = expense_category
               /\ \A i, j \in 1..Len(expense_category') :
                      (/\ expense_category'[i].user_id = expense_category'[j].user_id
                       /\ expense_category'[i].name = expense_category'[j].name) => i = j
      ]_vars
\* The third call for (1, "rent"): already there, and one row in the table
\* (the other pair added meanwhile being of the same user).
C5_Witness ==
    \E p \in Procs :
        /\ pc[p] = "idle"
        /\ args[p].n = 3
        /\ args[p].request.op = "add_category"
        /\ args[p].request.user_id = 1
        /\ args[p].request.category_name = "rent"
        /\ resp[p].body = "Category already exists"
        /\ Len(expense_category) = 1

\* --- C6 (ConcBalanceSpec)
\* C6: get_balance and update_balance with a user_id that references no user
\* return 404 (get_balance no balance), and the users table is left as it was.
C6_MissingUserIs404 ==
    [][\A p \in Procs :
         (Returned(p) /\ args'[p].request.op \in {"get_balance", "update_balance"}
                      /\ ~UserExists(args'[p].request.user_id))
         => /\ resp'[p].status = 404
            /\ resp'[p].body = "User not found"
            /\ users' = users
      ]_vars
C6_Witness ==
    /\ \E p \in Procs : /\ pc[p] = "idle" /\ args[p].request.op = "get_balance"
                        /\ args[p].request.user_id = 3 /\ resp[p].status = 404
    /\ \E p \in Procs : /\ pc[p] = "idle" /\ args[p].request.op = "update_balance"
                        /\ args[p].request.user_id = 3 /\ resp[p].status = 404
    /\ Len(users) = 2

\* --- C9 (ConcBalanceSpec)
\* C9: whenever no request is in flight, every user's account_balance is 0
\* plus the credits of completed update_balance requests minus the amounts of
\* the user's expense rows.
C9_BalanceIsLedger ==
    AllIdle =>
        \A u \in UserIds :
            UserExists(u) => UserRow(u).account_balance = 0 + credited[u] - ExpenseTotalOf(u)

\* --- C7 (SeqMonthlySpec)
OwnMonthTotal(user_id, month, year) ==
    SumSeq([i \in 1..Len(expenses) |->
               IF /\ expenses[i].user_id = user_id
                  /\ expenses[i].date[1] = year
                  /\ expenses[i].date[2] = month
               THEN expenses[i].amount ELSE 0])
\* C7: the grand total of calculate_monthly_expenses(user_id, month, year) is
\* the sum of the amounts of the user's expenses dated in that month of that
\* year: each expense counts in its own month's summary and in no other; the
\* total is 0 when there is none.
C7_MonthlyTotalIsOwnMonth ==
    [][\A p \in Procs :
         (Returned(p) /\ args'[p].request.op = "calculate_monthly_expenses"
                      /\ args'[p].request.month \in 1..12)
         => LET r == args'[p].request
            IN /\ resp'[p].status = 200
               /\ resp'[p].body.total.total_expense = OwnMonthTotal(r.user_id, r.month, r.year)
      ]_vars
\* The same for every month but December of the last year a date can hold.
MonthlyTotalBelowLastMonth ==
    [][\A p \in Procs :
         (Returned(p) /\ args'[p].request.op = "calculate_monthly_expenses"
                      /\ args'[p].request.month \in 1..12
                      /\ ~(args'[p].request.month = 12 /\ args'[p].request.year = 9999))
         => LET r == args'[p].request
            IN /\ resp'[p].status = 200
               /\ resp'[p].body.total.total_expense = OwnMonthTotal(r.user_id, r.month, r.year)
      ]_vars
\* February 2024 of a user with an expense on 2024-02-29 and one on
\* 2024-03-01: the total is the first one's amount.
MonthlyTotalWitness ==
    \E p \in Procs :
        /\ pc[p] = "idle"
        /\ args[p].request.op = "calculate_monthly_expenses"
        /\ args[p].request.month = 2
        /\ args[p].request.year = 2024
        /\ Len(expenses) = 2
        /\ \E i, j \in 1..2 :
               /\ expenses[i].date = <<2024, 2, 29>>
               /\ expenses[j].date = <<2024, 3, 1>>
               /\ expenses[i].user_id = args[p].request.user_id
               /\ expenses[j].user_id = args[p].request.user_id
               /\ expenses[i].amount = 2
               /\ expenses[j].amount = 1
               /\ resp[p].body.total.total_expense = 2

\* --- C8 (LoginSpec)
\* C8: login_user returns 401 and no token unless a user was registered with
\* the supplied email and password, in which case it returns a token whose
\* subject is the email and whose expiry is 60 minutes from now; the store is
\* left as it was.
C8_LoginNeedsCredentials ==
    [][\A p \in Procs :
         (Returned(p) /\ args'[p].request.op = "login_user")
         => LET r == args'[p].request
            IN /\ db' = db
               /\ IF <<r.email, r.password>> \in registered
                  THEN /\ resp'[p].status = 200
                       /\ resp'[p].body.token_type = "bearer"
                       /\ resp'[p].body.access_token.claims.sub = r.email
                       /\ resp'[p].body.access_token.claims.exp = now + 60
                  ELSE /\ resp'[p].status = 401
                       /\ resp'[p].body = "Incorrect username or password"
      ]_vars
\* A 401 for the email of a registered user with another password, after the
\* clock has moved.
C8_Witness ==
    \E p \in Procs :
        /\ pc[p] = "idle"
        /\ args[p].request.op = "login_user"
        /\ \E i \in 1..Len(users) : users[i].email = args[p].request.email
        /\ <<args[p].request.email, args[p].request.password>> \notin registered
        /\ resp[p].status = 401
        /\ now > 0

\* --- C10 (ConcCategorySpec)
\* C10: the store rejects no insert of an existing user's category for the
\* rows it already holds: a handler that passed the existence check inserts
\* its row and reports success, so two concurrent requests with the same
\* (user_id, name) that both pass the check leave two such rows.
C10_SecondInsertAccepted ==
    [][\A p \in Procs :
         (pc[p] = "add_category_commit" /\ pc'[p] = "idle"
              /\ UserExists(args[p].request.user_id))
         => /\ resp'[p].status = 200
            /\ resp'[p].body = "Category added successfully"
            /\ expense_category' =
                   Append(expense_category,
                          [id |-> Len(expense_category) + 1,
                           name |-> args[p].request.category_name,
                           user_id |-> args[p].request.user_id])
      ]_vars
\* Both threads report success for the same pair and the table holds two
\* rows of it.
C10_Witness ==
    /\ AllIdle
    /\ \A p \in Procs : /\ args[p].request.op = "add_category"
                        /\ args[p].request.user_id = 1
                        /\ args[p].request.category_name = "rent"
                        /\ resp[p].status = 200
                        /\ resp[p].body = "Category added successfully"
    /\ Cardinality(PairRows(expense_category, 1, "rent")) = 2

====
